---- MODULE Spec2Model ----
(***************************************************************************)
(* Base64 codec of rustc-serialize (src/base64.rs): the encoder            *)
(* `to_base64` as a step machine over its output buffer, the decoder       *)
(* `from_base64` as a recursive operator that follows its two loops.       *)
(* Bytes are the integers 0..255.                                          *)
(***************************************************************************)
EXTENDS Integers, Sequences, FiniteSets, TLC

(* ------------------------------ bounds --------------------------------- *)
\* longest input handed to the encoder
MaxLen == 7
\* largest wrap length Some(N) tried, N in 1..MaxLineLength
MaxLineLength == 8
\* longest text over RichBytes handed directly to the decoder
MaxShortLen == 3
\* longest text over LeanBytes handed directly to the decoder
MaxLongLen == 8
\* longest text that CR/LF bytes are inserted into
MaxNlLen == 4
\* most CR/LF bytes inserted into a text
MaxInserts == 2
\* width of usize in the model, in bits (the arithmetic wraps modulo 2^UsizeBits)
UsizeBits == 16
\* largest buffer, in bytes, the allocator can hand out
MaxAlloc == 1024

\* input bytes of the encoder: 'f' and 251; 251 251 251 encodes to "+/v7"
EncBytes == {102, 251}
\* text bytes of the decoder: A Z a z 0 9 + - / _ = CR LF and the invalid $ @ [
RichBytes == {65, 90, 97, 122, 48, 57, 43, 45, 47, 95, 61, 13, 10, 36, 64, 91}
\* Z _ = LF
LeanBytes == {90, 95, 61, 10}
\* Z = LF $
NlBytes == {90, 61, 10, 36}

(* ------------------------------ bytes ---------------------------------- *)
PAD == 61
CR == 13
LF == 10

UsizeMod == 2 ^ UsizeBits

Max(a, b) == IF a >= b THEN a ELSE b

RECURSIVE BitOr(_, _)
BitOr(a, b) ==
    IF a = 0 THEN b
    ELSE IF b = 0 THEN a
    ELSE Max(a % 2, b % 2) + 2 * BitOr(a \div 2, b \div 2)

RECURSIVE BitAnd(_, _)
BitAnd(a, b) ==
    IF a = 0 \/ b = 0 THEN 0
    ELSE ((a % 2) * (b % 2)) + 2 * BitAnd(a \div 2, b \div 2)

Shl(x, k) == x * (2 ^ k)
Shr(x, k) == x \div (2 ^ k)

\* all sequences over S of length at most n
SeqsUpTo(S, n) == UNION {[1..k -> S] : k \in 0..n}

(* ---------------------------- configuration ---------------------------- *)
\* Option<usize>: <<>> is None, <<n>> is Some(n)
None == <<>>
Some(n) == <<n>>

CharacterSet == {"Standard", "UrlSafe"}
Newline == {"LF", "CRLF"}

Config == [char_set : CharacterSet, newline : Newline, pad : BOOLEAN,
           line_length : {None} \cup {Some(n) : n \in 1..MaxLineLength}]

STANDARD == [char_set |-> "Standard", newline |-> "CRLF", pad |-> TRUE, line_length |-> None]
URL_SAFE == [char_set |-> "UrlSafe", newline |-> "CRLF", pad |-> FALSE, line_length |-> None]

Upper == [i \in 1..26 |-> 64 + i]
Lower == [i \in 1..26 |-> 96 + i]
Digits == [i \in 1..10 |-> 47 + i]

STANDARD_CHARS == Upper \o Lower \o Digits \o <<43, 47>>
URLSAFE_CHARS == Upper \o Lower \o Digits \o <<45, 95>>

(* ------------------------------ encoder -------------------------------- *)
Bytes(config) ==
    IF config.char_set = "Standard" THEN STANDARD_CHARS ELSE URLSAFE_CHARS

NewlineBytes(config) ==
    IF config.newline = "LF" THEN <<LF>> ELSE <<CR, LF>>

enc(config, val) == Bytes(config)[val + 1]

\* the round-up forgotten: len / 3 * 4
QuadLenFloor(len) == (len \div 3) * 4

\* (len + 2) / 3 * 4
QuadLen(len) == ((len + 2) \div 3) * 4

\* prealloc_len - 1 in usize: an overflow-checked build panics on 0 - 1,
\* any other build wraps
NumLines(quads, line_length) ==
    ((quads - 1) % UsizeMod) \div line_length

PreallocLen(len, config) ==
    IF config.line_length = None THEN QuadLen(len)
    ELSE (QuadLen(len)
          + NumLines(QuadLen(len), config.line_length[1]) * Len(NewlineBytes(config)))
         % UsizeMod

\* the second byte shifted by 6 instead of 8
PackShift6(first, second, third) == BitOr(BitOr(Shl(first, 16), Shl(second, 6)), third)

\* first << 16 | second << 8 | third
Pack(first, second, third) == BitOr(BitOr(Shl(first, 16), Shl(second, 8)), third)

Sextet(n, k) == BitAnd(Shr(n, k), 63)

\* `write` applied to vals in order: *s_out.next().unwrap() = val.
\* pos counts the writes attempted; ok is FALSE once next() returned None.
RECURSIVE WriteAll(_, _, _)
WriteAll(out, pos, vals) ==
    IF vals = <<>> THEN [out |-> out, pos |-> pos, ok |-> TRUE]
    ELSE IF pos >= Len(out) THEN [out |-> out, pos |-> pos + 1, ok |-> FALSE]
    ELSE WriteAll([out EXCEPT ![pos + 1] = Head(vals)], pos + 1, Tail(vals))

NeedsBreak(config, cur) ==
    config.line_length # None /\ cur >= config.line_length[1]

BlockBytes(config, first, second, third) ==
    LET n == Pack(first, second, third)
    IN  <<enc(config, Sextet(n, 18)), enc(config, Sextet(n, 12)),
          enc(config, Sextet(n, 6)), enc(config, Sextet(n, 0))>>

TailBytes(config, bs) ==
    LET len == Len(bs)
        mod_len == len % 3
    IN  IF mod_len = 0 THEN <<>>
        ELSE IF mod_len = 1 THEN
            LET n == Shl(bs[len], 16)
            IN  <<enc(config, Sextet(n, 18)), enc(config, Sextet(n, 12))>>
        ELSE
            LET n == BitOr(Shl(bs[len - 1], 16), Shl(bs[len], 8))
            IN  <<enc(config, Sextet(n, 18)), enc(config, Sextet(n, 12)),
                  enc(config, Sextet(n, 6))>>

RECURSIVE StripPad(_)
StripPad(out) ==
    IF out # <<>> /\ out[Len(out)] = PAD
    THEN StripPad(SubSeq(out, 1, Len(out) - 1))
    ELSE out

(* ------------------------------ decoder -------------------------------- *)
\* u32 as two 16-bit halves
U32(hi, lo) == [hi |-> hi, lo |-> lo]

\* buf |= v, for v below 2^16
OrLow(buf, v) == U32(buf.hi, BitOr(buf.lo, v))

\* buf <<= 6, the bits shifted out of the 32 are lost
Shl6(buf) ==
    U32((buf.hi * 64 + (buf.lo \div 1024)) % 65536, (buf.lo * 64) % 65536)

\* (buf >> k) as u8
ShrU8(buf, k) ==
    IF k >= 16 THEN Shr(buf.hi, k - 16) % 256
    ELSE (Shr(buf.lo, k) + Shl(buf.hi % 256, 16 - k)) % 256

Ok(r) == [tag |-> "Ok", bytes |-> r, byte |-> 0, idx |-> 0]
InvalidBase64Byte(b, i) == [tag |-> "InvalidBase64Byte", bytes |-> <<>>, byte |-> b, idx |-> i]
InvalidBase64Length == [tag |-> "InvalidBase64Length", bytes |-> <<>>, byte |-> 0, idx |-> 0]

\* only LF skipped, CR falls to the last arm
ByteClassLfOnly(byte) ==
    IF byte >= 65 /\ byte <= 90 THEN "data"
    ELSE IF byte >= 97 /\ byte <= 122 THEN "data"
    ELSE IF byte >= 48 /\ byte <= 57 THEN "data"
    ELSE IF byte = 43 \/ byte = 45 THEN "data"
    ELSE IF byte = 47 \/ byte = 95 THEN "data"
    ELSE IF byte = LF THEN "skip"
    ELSE IF byte = PAD THEN "pad"
    ELSE "invalid"

\* the arms of the match of lines 275-284
ByteClass(byte) ==
    IF byte >= 65 /\ byte <= 90 THEN "data"
    ELSE IF byte >= 97 /\ byte <= 122 THEN "data"
    ELSE IF byte >= 48 /\ byte <= 57 THEN "data"
    ELSE IF byte = 43 \/ byte = 45 THEN "data"
    ELSE IF byte = 47 \/ byte = 95 THEN "data"
    ELSE IF byte = CR \/ byte = LF THEN "skip"
    ELSE IF byte = PAD THEN "pad"
    ELSE "invalid"

\* '-' grouped with '/' and '_'
ByteValDash63(byte) ==
    IF byte >= 65 /\ byte <= 90 THEN byte - 65
    ELSE IF byte >= 97 /\ byte <= 122 THEN byte - 71
    ELSE IF byte >= 48 /\ byte <= 57 THEN byte + 4
    ELSE IF byte = 43 THEN 62
    ELSE 63

\* the value or-ed into buf by a data byte
ByteVal(byte) ==
    IF byte >= 65 /\ byte <= 90 THEN byte - 65
    ELSE IF byte >= 97 /\ byte <= 122 THEN byte - 71
    ELSE IF byte >= 48 /\ byte <= 57 THEN byte + 4
    ELSE IF byte = 43 \/ byte = 45 THEN 62
    ELSE 63

\* a single leftover character dropped instead of refused
FinalizeLenient(buf, modulus, r) ==
    IF modulus = 2 THEN Ok(Append(r, ShrU8(buf, 10)))
    ELSE IF modulus = 3 THEN Ok(r \o <<ShrU8(buf, 16), ShrU8(buf, 8)>>)
    ELSE Ok(r)

\* lines 303-315
Finalize(buf, modulus, r) ==
    IF modulus = 2 THEN Ok(Append(r, ShrU8(buf, 10)))
    ELSE IF modulus = 3 THEN Ok(r \o <<ShrU8(buf, 16), ShrU8(buf, 8)>>)
    ELSE IF modulus = 0 THEN Ok(r)
    ELSE InvalidBase64Length

\* the scan after the first '=' left out
PadLoopSkipped(s, i, buf, modulus, r) == Finalize(buf, modulus, r)

\* lines 296-301: the scan after the first '=' from 1-based position i
RECURSIVE PadLoop(_, _, _, _, _)
PadLoop(s, i, buf, modulus, r) ==
    IF i > Len(s) THEN Finalize(buf, modulus, r)
    ELSE IF s[i] = PAD \/ s[i] = CR \/ s[i] = LF
         THEN PadLoop(s, i + 1, buf, modulus, r)
         ELSE InvalidBase64Byte(s[i], i - 1)

\* lines 272-294: the main loop from 1-based position i
RECURSIVE MainLoop(_, _, _, _, _)
MainLoop(s, i, buf, modulus, r) ==
    IF i > Len(s) THEN PadLoop(s, i, buf, modulus, r)
    ELSE
        LET c == ByteClass(s[i])
        IN  IF c = "skip" THEN MainLoop(s, i + 1, buf, modulus, r)
            ELSE IF c = "pad" THEN PadLoop(s, i + 1, buf, modulus, r)
            ELSE IF c = "invalid" THEN InvalidBase64Byte(s[i], i - 1)
            ELSE
                LET b == Shl6(OrLow(buf, ByteVal(s[i])))
                IN  IF modulus + 1 = 4
                    THEN MainLoop(s, i + 1, b, 0,
                                  r \o <<ShrU8(b, 22), ShrU8(b, 14), ShrU8(b, 6)>>)
                    ELSE MainLoop(s, i + 1, b, modulus + 1, r)

from_base64(s) == MainLoop(s, 1, U32(0, 0), 0, <<>>)

\* the text with byte b inserted before 0-based position p
InsertAt(s, p, b) == SubSeq(s, 1, p) \o <<b>> \o SubSeq(s, p + 1, Len(s))

\* '-' and '_' replaced by '+' and '/'
ToStandardChar(b) == IF b = 45 THEN 43 ELSE IF b = 95 THEN 47 ELSE b
ToStandard(s) == [i \in 1..Len(s) |-> ToStandardChar(s[i])]

VARIABLES data, config, pc, prealloc_len, out_bytes, s_out, s_in, cur_length,
          text, result, orig, orig_result, mask

vars == <<data, config, pc, prealloc_len, out_bytes, s_out, s_in, cur_length,
          text, result, orig, orig_result, mask>>

enc_vars == <<data, config, prealloc_len, out_bytes, s_out, s_in, cur_length>>
dec_vars == <<text, result, orig, orig_result, mask>>

NoResult == [tag |-> "None", bytes |-> <<>>, byte |-> 0, idx |-> 0]

\* lines 105-112: the buffer size and the buffer of '='
Prealloc ==
    /\ pc = "start"
    /\ \E overflow_checks \in BOOLEAN :
         LET len == Len(data)
             underflow == config.line_length # None /\ QuadLen(len) = 0
             want == PreallocLen(len, config)
         IN  IF (underflow /\ overflow_checks) \/ want > MaxAlloc
             THEN /\ pc' = "panic"
                  /\ UNCHANGED <<prealloc_len, out_bytes>>
             ELSE /\ pc' = "loop"
                  /\ prealloc_len' = want
                  /\ out_bytes' = [i \in 1..want |-> PAD]
    /\ UNCHANGED <<data, config, s_out, s_in, cur_length>>
    /\ UNCHANGED dec_vars

\* lines 129-149: one full triple
Block ==
    /\ pc = "loop"
    /\ s_in + 3 <= Len(data) - (Len(data) % 3)
    /\ LET brk == NeedsBreak(config, cur_length)
           vals == (IF brk THEN NewlineBytes(config) ELSE <<>>)
                   \o BlockBytes(config, data[s_in + 1], data[s_in + 2], data[s_in + 3])
           w == WriteAll(out_bytes, s_out, vals)
       IN  /\ out_bytes' = w.out
           /\ s_out' = w.pos
           /\ pc' = IF w.ok THEN "loop" ELSE "panic"
           /\ cur_length' = (IF brk THEN 0 ELSE cur_length) + 4
    /\ s_in' = s_in + 3
    /\ UNCHANGED <<data, config, prealloc_len>>
    /\ UNCHANGED dec_vars

\* lines 151-177: the loop's exit, the tail's line break and the tail
TailStep ==
    /\ pc = "loop"
    /\ s_in + 3 > Len(data) - (Len(data) % 3)
    /\ LET mod_len == Len(data) % 3
           brk == mod_len # 0 /\ NeedsBreak(config, cur_length)
           vals == (IF brk THEN NewlineBytes(config) ELSE <<>>)
                   \o TailBytes(config, data)
           w == WriteAll(out_bytes, s_out, vals)
       IN  /\ out_bytes' = w.out
           /\ s_out' = w.pos
           /\ pc' = IF w.ok THEN "tail_done" ELSE "panic"
    /\ UNCHANGED <<data, config, prealloc_len, s_in, cur_length>>
    /\ UNCHANGED dec_vars

\* lines 180-187: drop the padding if unwanted, return the string
Finish ==
    /\ pc = "tail_done"
    /\ out_bytes' = IF config.pad THEN out_bytes ELSE StripPad(out_bytes)
    /\ pc' = "done"
    /\ UNCHANGED <<data, config, prealloc_len, s_out, s_in, cur_length>>
    /\ UNCHANGED dec_vars

\* from_base64 applied to the string to_base64 returned
Decode ==
    /\ pc = "done"
    /\ text' = out_bytes
    /\ result' = from_base64(out_bytes)
    /\ pc' = "decoded"
    /\ UNCHANGED <<orig, orig_result, mask>>
    /\ UNCHANGED enc_vars

EncIdle ==
    /\ data = <<>>
    /\ config = STANDARD
    /\ prealloc_len = 0
    /\ out_bytes = <<>>
    /\ s_out = 0
    /\ s_in = 0
    /\ cur_length = 0

DecIdle ==
    /\ text = <<>>
    /\ result = NoResult
    /\ orig = <<>>
    /\ orig_result = NoResult
    /\ mask = <<>>

\* encode, then decode what was encoded
Init ==
    /\ data \in SeqsUpTo(EncBytes, MaxLen)
    /\ config \in Config
    /\ pc = "start"
    /\ prealloc_len = 0
    /\ out_bytes = <<>>
    /\ s_out = 0
    /\ s_in = 0
    /\ cur_length = 0
    /\ DecIdle

Next == Prealloc \/ Block \/ TailStep \/ Finish \/ Decode

Spec == Init /\ [][Next]_vars

(* --------------------- the decoder on arbitrary texts ------------------ *)
\* from_base64 applied to a text
DecodeText ==
    /\ pc = "text"
    /\ result' = from_base64(text)
    /\ orig_result' = from_base64(text)
    /\ pc' = "decoded_text"
    /\ UNCHANGED <<text, orig, mask>>
    /\ UNCHANGED enc_vars

\* from_base64 applied to the text written in the Standard alphabet
DecodeTranslated ==
    /\ pc = "decoded_text"
    /\ text' = ToStandard(text)
    /\ result' = from_base64(ToStandard(text))
    /\ pc' = "translated"
    /\ UNCHANGED <<orig, orig_result, mask>>
    /\ UNCHANGED enc_vars

InitDec ==
    /\ text \in SeqsUpTo(RichBytes, MaxShortLen) \cup SeqsUpTo(LeanBytes, MaxLongLen)
    /\ orig = text
    /\ mask = [i \in 1..Len(text) |-> FALSE]
    /\ result = NoResult
    /\ orig_result = NoResult
    /\ pc = "text"
    /\ EncIdle

NextDec == DecodeText \/ DecodeTranslated

SpecDec == InitDec /\ [][NextDec]_vars

(* ------------------ the decoder on texts with CR/LF added -------------- *)
Inserted(m) == Cardinality({i \in 1..Len(m) : m[i]})

\* from_base64 applied to the text with one more CR or LF in it
DecodeInserted ==
    /\ pc \in {"decoded_text", "inserted"}
    /\ Inserted(mask) < MaxInserts
    /\ \E p \in 0..Len(text), b \in {CR, LF} :
         /\ text' = InsertAt(text, p, b)
         /\ mask' = InsertAt(mask, p, TRUE)
         /\ result' = from_base64(InsertAt(text, p, b))
    /\ pc' = "inserted"
    /\ UNCHANGED <<orig, orig_result>>
    /\ UNCHANGED enc_vars

InitNl ==
    /\ text \in SeqsUpTo(NlBytes, MaxNlLen)
    /\ orig = text
    /\ mask = [i \in 1..Len(text) |-> FALSE]
    /\ result = NoResult
    /\ orig_result = NoResult
    /\ pc = "text"
    /\ EncIdle

NextNl == DecodeText \/ DecodeInserted

SpecNl == InitNl /\ [][NextNl]_vars

(* ------------------------- claims on the encoder ----------------------- *)
Returned == pc \in {"done", "decoded"}

\* C1: from_base64(to_base64(v, cfg)) returns Ok(v) for every v, the empty one
\* included, and every configuration: the encoder returns, and what it
\* returned decodes to the input
C1_RoundTrip ==
    /\ pc # "panic"
    /\ pc = "decoded" => result = Ok(data)

\* the round trip of the inputs that are not empty
RoundTripNonEmpty ==
    Len(data) > 0 => C1_RoundTrip

\* C2: to_base64 of the empty input returns the empty string under every
\* configuration, line wrapping included, and from_base64 of the empty text
\* returns Ok of the empty byte sequence
C2_EmptyInput ==
    data = <<>> =>
        /\ pc # "panic"
        /\ Returned => out_bytes = <<>>
        /\ pc = "decoded" => result = Ok(<<>>)

\* the empty input under the configurations that do not wrap
EmptyInputNoWrap ==
    data = <<>> /\ config.line_length = None => C2_EmptyInput

\* the bits of a byte, most significant first
BitsOf(b) == [i \in 1..8 |-> (b \div (2 ^ (8 - i))) % 2]

RECURSIVE AllBits(_)
AllBits(v) == IF v = <<>> THEN <<>> ELSE BitsOf(Head(v)) \o AllBits(Tail(v))

\* bits filled with zeros up to a multiple of 6
ZeroFill(bits) == bits \o [i \in 1..((6 - (Len(bits) % 6)) % 6) |-> 0]

\* RFC 4648, Table 1 and Table 2
RefChar(v, char_set) ==
    IF v < 26 THEN 65 + v
    ELSE IF v < 52 THEN 97 + (v - 26)
    ELSE IF v < 62 THEN 48 + (v - 52)
    ELSE IF v = 62 THEN (IF char_set = "Standard" THEN 43 ELSE 45)
    ELSE (IF char_set = "Standard" THEN 47 ELSE 95)

RefSextet(bits, j) ==
    32 * bits[6 * j - 5] + 16 * bits[6 * j - 4] + 8 * bits[6 * j - 3]
    + 4 * bits[6 * j - 2] + 2 * bits[6 * j - 1] + bits[6 * j]

RefEncode(v, char_set, pad) ==
    LET bits == ZeroFill(AllBits(v))
        chars == [j \in 1..(Len(bits) \div 6) |-> RefChar(RefSextet(bits, j), char_set)]
        npad == IF pad THEN (3 - (Len(v) % 3)) % 3 ELSE 0
    IN  chars \o [i \in 1..npad |-> PAD]

\* C3: without line wrapping the string returned is the RFC 4648 encoding of
\* the input in the configured alphabet, followed by (3 - len mod 3) mod 3 '='
\* when pad is set and by none otherwise, and it holds no CR and no LF
C3_ReferenceEncoding ==
    Returned /\ config.line_length = None =>
        /\ out_bytes = RefEncode(data, config.char_set, config.pad)
        /\ \A i \in 1..Len(out_bytes) : out_bytes[i] # CR /\ out_bytes[i] # LF

C3_Witness ==
    /\ pc = "done"
    /\ config.line_length = None
    /\ config.char_set = "UrlSafe"
    /\ config.pad
    /\ Len(data) = 5
    /\ \E i \in 1..Len(out_bytes) : out_bytes[i] = 95

\* the lengths of the lines of s, split at each occurrence of nl
RECURSIVE LineLens(_, _, _)
LineLens(s, nl, cur) ==
    IF s = <<>> THEN <<cur>>
    ELSE IF Len(s) >= Len(nl) /\ SubSeq(s, 1, Len(nl)) = nl
         THEN <<cur>> \o LineLens(SubSeq(s, Len(nl) + 1, Len(s)), nl, 0)
         ELSE LineLens(Tail(s), nl, cur + 1)

LinesWrappedAt(s, nl, n) ==
    LET ls == LineLens(s, nl, 0)
    IN  /\ \A i \in 1..(Len(ls) - 1) : ls[i] = n
        /\ ls[Len(ls)] >= 1
        /\ ls[Len(ls)] <= n

\* C4: with line_length = Some(N), N >= 1, every line of the string returned
\* but the last holds exactly N characters and the last holds 1 to N, for
\* every N and not only for the multiples of 4
C4_LineWrapping ==
    Returned /\ config.line_length # None =>
        LinesWrappedAt(out_bytes, NewlineBytes(config), config.line_length[1])

\* the same for the wrap lengths that are multiples of 4
LineWrappingMultipleOf4 ==
    Returned /\ config.line_length # None /\ config.line_length[1] % 4 = 0 =>
        LinesWrappedAt(out_bytes, NewlineBytes(config), config.line_length[1])

CountPad(s) == Cardinality({i \in 1..Len(s) : s[i] = PAD})

\* C5: with pad set, and for every input that is not empty, the string
\* returned holds exactly 0, 2 or 1 '=' for len mod 3 = 0, 1 or 2, whatever
\* the wrap length
C5_PaddingCount ==
    Returned /\ config.pad /\ Len(data) > 0 =>
        CountPad(out_bytes) = (3 - (Len(data) % 3)) % 3

\* the same for the wrap lengths that are multiples of 4
PaddingCountMultipleOf4 ==
    Returned /\ config.pad /\ Len(data) > 0
             /\ (config.line_length # None => config.line_length[1] % 4 = 0) =>
        CountPad(out_bytes) = (3 - (Len(data) % 3)) % 3

\* 4 * ceil(len / 3)
Quads(len) == 4 * ((len \div 3) + (IF len % 3 = 0 THEN 0 ELSE 1))

\* C10: for every input that is not empty the encoder never writes past its
\* buffer: the writes so far number at most prealloc_len, which is
\* 4*ceil(len/3) + floor((4*ceil(len/3) - 1)/N) * |newline|, and the encoder
\* does not panic
C10_NoOverrun ==
    Len(data) > 0 =>
        /\ pc # "panic"
        /\ s_out <= prealloc_len
        /\ pc # "start" =>
             /\ Len(out_bytes) <= prealloc_len
             /\ prealloc_len =
                  Quads(Len(data))
                  + (IF config.line_length = None THEN 0
                     ELSE ((Quads(Len(data)) - 1) \div config.line_length[1])
                          * Len(NewlineBytes(config)))

\* every byte of the buffer is written: a tail after a full last line
C10_Witness ==
    /\ pc = "tail_done"
    /\ Len(data) = 7
    /\ config.line_length = Some(4)
    /\ config.newline = "CRLF"
    /\ s_out = prealloc_len - 2

(* ------------------------- claims on the decoder ----------------------- *)
\* result is from_base64(text)
Decoded == pc \in {"decoded", "decoded_text", "translated", "inserted"}

DataChars == (65..90) \cup (97..122) \cup (48..57) \cup {43, 45, 47, 95}
ValidChars == DataChars \cup {61, 13, 10}

PadBefore(s, i) == \E j \in 1..(i - 1) : s[j] = 61

\* the 1-based positions of the bytes that are invalid where they stand
Offending(s) ==
    {i \in 1..Len(s) : IF PadBefore(s, i) THEN s[i] \notin {61, 13, 10}
                                          ELSE s[i] \notin ValidChars}

Least(S) == CHOOSE x \in S : \A y \in S : x <= y

\* C6: when the text holds a byte that is invalid where it stands (not of the
\* alphabets, '=', CR, LF before the first '='; not '=', CR, LF after it),
\* from_base64 returns InvalidBase64Byte with the first such byte and its
\* zero-based position in the text and nothing else, whatever the length;
\* when it holds none, from_base64 never returns InvalidBase64Byte
C6_InvalidByte ==
    Decoded =>
        IF Offending(text) # {}
        THEN result = [tag |-> "InvalidBase64Byte", bytes |-> <<>>,
                       byte |-> text[Least(Offending(text))],
                       idx |-> Least(Offending(text)) - 1]
        ELSE result.tag \in {"Ok", "InvalidBase64Length"}

\* "Z=$": the invalid byte stands after the '=', and the one data character
\* before it would make the length invalid
C6_Witness ==
    /\ pc = "decoded_text"
    /\ Len(text) = 3
    /\ text[1] = 90
    /\ text[2] = 61
    /\ text[3] = 36
    /\ result.tag = "InvalidBase64Byte"
    /\ result.idx = 2

\* the number of data characters before the first '='
DataBeforePad(s) ==
    Cardinality({i \in 1..Len(s) : s[i] \in DataChars /\ ~PadBefore(s, i) })

\* C7: on a text without invalid byte, with k data characters before the
\* first '=', from_base64 returns InvalidBase64Length exactly when
\* k mod 4 = 1 and Ok of floor(3k/4) bytes otherwise, however many '=' follow
C7_InvalidLength ==
    Decoded /\ Offending(text) = {} =>
        LET k == DataBeforePad(text)
        IN  IF k % 4 = 1
            THEN result = [tag |-> "InvalidBase64Length", bytes |-> <<>>,
                           byte |-> 0, idx |-> 0]
            ELSE /\ result.tag = "Ok"
                 /\ Len(result.bytes) = (3 * k) \div 4

\* a full quad and one more data character, then '='
C7_Witness ==
    /\ pc = "decoded_text"
    /\ Len(text) = 7
    /\ DataBeforePad(text) = 5
    /\ text[7] = 61
    /\ result.tag = "InvalidBase64Length"

\* text without the bytes the mask marks
RECURSIVE Unmasked(_, _)
Unmasked(s, m) ==
    IF s = <<>> THEN <<>>
    ELSE IF Head(m) THEN Unmasked(Tail(s), Tail(m))
    ELSE <<Head(s)>> \o Unmasked(Tail(s), Tail(m))

\* the 1-based position in the masked text of the n-th byte of the original
PositionOf(m, n) ==
    Least({p \in 1..Len(m) :
             ~m[p] /\ Cardinality({q \in 1..p : ~m[q]}) = n})

InsertedBefore(m, p) == Cardinality({q \in 1..(p - 1) : m[q]})

\* C8: CR and LF bytes added anywhere to a text leave the bytes from_base64
\* returns unchanged, and leave an error the same error, on the same byte,
\* its position moved by the number of bytes added before it
C8_NewlineTolerance ==
    pc = "inserted" =>
        /\ Unmasked(text, mask) = orig
        /\ orig_result.tag \in {"Ok", "InvalidBase64Length"} => result = orig_result
        /\ orig_result.tag = "InvalidBase64Byte" =>
             result = [tag |-> "InvalidBase64Byte", bytes |-> <<>>,
                       byte |-> orig_result.byte,
                       idx |-> orig_result.idx
                               + InsertedBefore(mask, PositionOf(mask, orig_result.idx + 1))]

\* one byte added before the invalid byte and one after it
C8_Witness ==
    /\ pc = "inserted"
    /\ Inserted(mask) = 2
    /\ orig_result.tag = "InvalidBase64Byte"
    /\ result.idx = orig_result.idx + 1
    /\ mask[Len(mask)]

\* C9: from_base64 of a text equals from_base64 of the text with each '-'
\* replaced by '+' and each '_' by '/', texts that mix the alphabets included
C9_AlphabetAgnostic ==
    pc = "translated" => /\ text = ToStandard(orig)
                         /\ result = orig_result

\* C9 as amended: the two results are equal but for the byte an
\* InvalidBase64Byte carries, which is the byte of the text decoded: a '-' or
\* '_' after the first '=' is reported as itself, and as '+' or '/' when replaced
C9_AlphabetAgnosticUpToByte ==
    pc = "translated" =>
        /\ text = ToStandard(orig)
        /\ result = [orig_result EXCEPT !.byte = ToStandardChar(orig_result.byte)]
        /\ orig_result.tag = "Ok" => result = orig_result

\* a text with '-' and '/' that decodes to bytes
C9_Witness ==
    /\ pc = "translated"
    /\ \E i, j \in 1..Len(orig) : orig[i] = 45 /\ orig[j] = 47
    /\ result.tag = "Ok"
    /\ Len(result.bytes) = 2
====
